---- MODULE Spec2Model ----
(***************************************************************************)
(* A model of insta_posts_downloader.py: main(), login_with_session() and  *)
(* download_posts_with_delays().  Every call into the external client, and *)
(* every blocking prompt or sleep, is one step whose outcome is chosen     *)
(* nondeterministically: it completes, it raises one of the classes the    *)
(* callee can raise, or the user's interrupt (KeyboardInterrupt) arrives   *)
(* while it blocks.  The except clauses of the source decide what happens  *)
(* to each raised class.                                                   *)
(***************************************************************************)
EXTENDS Integers, Sequences, FiniteSets

\* ------------------------------------------------------------- bounds
\* Largest post collection explored when the downloader is run on its own.
MaxPosts == 3
\* Largest post collection explored in a whole run of main.
MaxMainPosts == 2
\* Largest per_post_retries explored when the downloader is run on its own.
MaxRetries == 2
\* Longest profile name explored when sanitize_filename is examined.
MaxNameLen == 3
\* Width of a float's significand in the model (53 in CPython).
MantissaBits == 10

\* ---------------------------------------------------- program constants
\* PER_POST_RETRIES of main.
PER_POST_RETRIES == 3
\* backoff_base as main passes it (2.0).
BACKOFF_BASE == 2

VARIABLES
    pc,               \* position in the program
    caller,           \* "main": a run of main; "direct": a function run on its own
    term,             \* how the process ended: "running", "returned", "exit", "uncaught"
    exitCode,         \* the process's exit code (-1: none yet, or a traceback)
    uncaughtExc,      \* the exception that left main uncaught ("none")
    lastMsg,          \* the last message printed ("" when none)
    target_profile,   \* main: the stripped target handle
    session_user,     \* main: the stripped session username, <<>> for None
    used_user,        \* main: [kind: "unset", "none" or "name", name]
    proceed,          \* main: [asked, raw]: the raw answer to "Continue without login?"
    allow_interactive,\* login_with_session's parameter
    user,             \* login_with_session: the username typed at the prompt
    loginStatus,      \* login_with_session: "idle", "running", "returned", "raised"
    loginValue,       \* the username it returned (<<>>: none)
    loginExc,         \* the class it raised ("none")
    loginCause,       \* what the RuntimeError it raised reports ("none")
    sessionLoad,      \* outcome of load_session_from_file: "notcalled", "loaded", or the class raised
    isPrivate,        \* profile.is_private of the resolved profile
    testLogin,        \* outcome of loader.test_login(): "notcalled", "true", "false", "raised"
    nposts,           \* length of profile.get_posts()
    per_post_retries, \* download_posts_with_delays's parameter
    backoff_base,     \* download_posts_with_delays's parameter
    profile_username, \* profile.username of the profile passed to it
    safe_name,        \* the destination's name
    wait,             \* the length of the backoff sleep in progress (0: none)
    i,                \* index of the post the for loop is at (0 before the first)
    attempt,          \* the retry loop's attempt counter
    total,            \* the success counter
    dlStatus,         \* download_posts_with_delays: "idle", "running", "returned", "raised"
    dlValue,          \* the count it returned (-1: none)
    dlExc,            \* the class it raised ("none")
    dlRaisedAt,       \* the position whose exception left the function ("none")
    \* history of the calls made, kept to state the properties
    tries,            \* tries[p]: download_post calls made for post p
    succeeded,        \* posts whose download_post call returned
    loopEnded,        \* posts whose retry loop has ended (break or exhaustion)
    backoffs,         \* backoffs[p]: exponents of the backoff sleeps completed for post p
    paced,            \* paced[p]: pacing sleeps completed after post p
    interruptedAt,    \* the position at which KeyboardInterrupt was raised ("none")
    failedAt,         \* positions at which another exception was raised
    calls             \* calls[f]: number of calls made of external operation f

procVars == <<term, exitCode, uncaughtExc>>
inputVars == <<target_profile, session_user, used_user, proceed>>
loginVars == <<allow_interactive, user, sessionLoad, loginStatus, loginValue,
               loginExc, loginCause>>
profileVars == <<isPrivate, testLogin, nposts>>
dlRet == <<dlStatus, dlValue, dlExc, dlRaisedAt>>
dlLoop == <<i, attempt, total>>
dlHist == <<tries, succeeded, loopEnded, backoffs, paced>>
raiseHist == <<interruptedAt, failedAt>>
dlParams == <<per_post_retries, backoff_base, profile_username>>
dlLocals == <<safe_name, wait>>
dlVars == <<dlParams, dlLocals, dlRet, dlLoop, dlHist>>
\* What download_posts_with_delays never touches.
outsideDl == <<caller, procVars, inputVars, loginVars, profileVars,
               dlParams, calls>>

vars == <<pc, lastMsg, outsideDl, dlLocals, dlRet, dlLoop, dlHist, raiseHist>>

\* ------------------------------------------------ exceptions (Python)
KeyboardInterrupt == "KeyboardInterrupt"
SystemExit == "SystemExit"
RuntimeError == "RuntimeError"
FileNotFoundError == "FileNotFoundError"
OSError == "OSError"
ConnectionException == "ConnectionException"
LoginException == "LoginException"
TwoFactorAuthRequiredException == "TwoFactorAuthRequiredException"
ProfileNotExistsException == "ProfileNotExistsException"
QueryReturnedNotFoundException == "QueryReturnedNotFoundException"
\* Any class under Exception that no clause of the program names.
OtherException == "Exception"

\* `except Exception` catches every class but the BaseException-only ones.
IsException(e) == e \notin {KeyboardInterrupt, SystemExit}

\* What a sleep or a prompt can raise: only the user's interrupt.
SleepRaises == {KeyboardInterrupt}

\* What loader.download_post can raise.
DownloadRaises == {KeyboardInterrupt, ConnectionException, OtherException}

\* What iterating profile.get_posts() can raise (it pages over the network).
IterRaises == {KeyboardInterrupt, ConnectionException, OtherException}

Posts == 1..MaxPosts
\* The calls into the external client, and the prompts and the pause of
\* login_with_session, that are counted.
ExternalOps == {"Instaloader", "load_session", "get_credentials",
                "pre_login_sleep", "login", "input_2fa", "two_factor_login",
                "save_session", "from_username", "download_posts"}

\* Record at which position exception e was raised.
NoteRaise(e, at) ==
    /\ interruptedAt' = IF e = KeyboardInterrupt THEN at ELSE interruptedAt
    /\ failedAt' = IF e = KeyboardInterrupt THEN failedAt ELSE failedAt \cup {at}

\* ------------------------------------------------------------ strings
\* A string is a sequence of one-character strings.

Whitespace == {" ", "\t", "\n", "\r"}

\* str.lower() on one character of the alphabet the inputs use.
LowerChar(c) ==
    CASE c = "Y" -> "y"
      [] c = "E" -> "e"
      [] c = "S" -> "s"
      [] c = "N" -> "n"
      [] c = "O" -> "o"
      [] OTHER -> c

\* str.lower().
Lower(s) == [k \in 1..Len(s) |-> LowerChar(s[k])]

RECURSIVE LStrip(_)
LStrip(s) ==
    IF s # <<>> /\ Head(s) \in Whitespace THEN LStrip(Tail(s)) ELSE s

RECURSIVE RStrip(_)
RStrip(s) ==
    IF s # <<>> /\ s[Len(s)] \in Whitespace
    THEN RStrip(SubSeq(s, 1, Len(s) - 1))
    ELSE s

\* str.strip().
Strip(s) == RStrip(LStrip(s))

\* ------------------------------------------------- sanitize_filename

\* The character class of the pattern: < > : " / \ | ? * \n \r \t
Unsafe == {"<", ">", ":", "\"", "/", "\\", "|", "?", "*", "\n", "\r", "\t"}

\* re.sub(pattern, '_', name): each match is one character.
Substitute(name) ==
    [k \in 1..Len(name) |-> IF name[k] \in Unsafe THEN "_" ELSE name[k]]

\* Mutant: the trailing .strip() is missing.
sanitize_filename_NoStrip(name) == Substitute(name)

sanitize_filename(name) == Strip(Substitute(name))

\* --------------------------------------------------------------- floats
\* A float is kept as a whole number of grains; one second is Unit grains.
\* Between two powers of two, B and 2B, the representable values are
\* 2^(MantissaBits-1) equally spaced ones, as for an IEEE double.

RECURSIVE Pow(_, _)
Pow(b, n) == IF n = 0 THEN 1 ELSE b * Pow(b, n - 1)

Unit == Pow(2, MantissaBits + 1)

RECURSIVE Pow2Below(_, _)
\* The largest power of two not above x, counted up from b.
Pow2Below(x, b) == IF 2 * b > x THEN b ELSE Pow2Below(x, 2 * b)

\* The distance between neighbouring floats around x.
Spacing(x) ==
    LET B == Pow2Below(x, 1)
        n == Pow(2, MantissaBits - 1)
    IN  IF B < n THEN 1 ELSE B \div n

\* The float nearest to the exact result x, ties to the even neighbour.
RoundFloat(x) ==
    IF x = 0 THEN 0
    ELSE LET s == Spacing(x)
             q == x \div s
             r == x % s
         IN  IF 2 * r < s THEN q * s
             ELSE IF 2 * r > s THEN (q + 1) * s
             ELSE IF q % 2 = 0 THEN q * s
             ELSE (q + 1) * s

\* What random.random() can return: a multiple of 2^-MantissaBits in [0, 1).
\* The smallest, a middle one and the largest are explored.
RandomDraws == {0, Unit \div 2, Unit - 2}

\* random.uniform(a, b) is a + (b - a) * random(), each operation rounded.
Uniform(a, b, r) == RoundFloat(a + RoundFloat(((b - a) * r) \div Unit))

\* Mutant: the exponent is taken before attempt is incremented.
BackoffWait_PreIncrement(base, a, r) ==
    RoundFloat(Pow(base, a - 1) * Unit + Uniform(Unit \div 2, 2 * Unit, r))

\* (backoff_base ** attempt) + random.uniform(0.5, 2.0)
BackoffWait(base, a, r) ==
    RoundFloat(Pow(base, a) * Unit + Uniform(Unit \div 2, 2 * Unit, r))

\* ------------------------------------------- download_posts_with_delays

\* Mutant: the KeyboardInterrupt clause is missing.
DownloadHandler_NoInterruptClause(e) ==
    IF e = ConnectionException THEN "retry"
    ELSE IF IsException(e) THEN "retry"
    ELSE "propagate"

\* Mutant: the blanket `except Exception` clause is missing.
DownloadHandler_NoBlanketClause(e) ==
    IF e = KeyboardInterrupt THEN "return_total"
    ELSE IF e = ConnectionException THEN "retry"
    ELSE "propagate"

\* The except clauses of the per-post try, first match first.
DownloadHandler(e) ==
    IF e = KeyboardInterrupt THEN "return_total"
    ELSE IF e = ConnectionException THEN "retry"
    ELSE IF IsException(e) THEN "retry"
    ELSE "propagate"

\* The message the retrying clauses print.
DownloadMsg(e) ==
    IF e = ConnectionException THEN "connection_error_retry" ELSE "error_retry"

\* Mutant: the loop allows one attempt more.
WhileCond_OneMore(a, r) == a <= r + 1

\* Mutant: the loop stops one attempt early.
WhileCond_OffByOne(a, r) == a < r

\* The retry loop's condition.
WhileCond(a, r) == a <= r

\* Mutant: an abandoned post is followed by the next one without pacing.
LoopTop_NoPacingOnExhaustion(a, r) ==
    IF WhileCond(a, r) THEN "dl_call" ELSE "dl_iter"

\* Where control goes when the retry loop's condition is evaluated.
LoopTop(a, r) == IF WhileCond(a, r) THEN "dl_call" ELSE "dl_pacing"

\* The function returns v.
DlReturn(v) ==
    /\ pc' = "dl_done"
    /\ dlStatus' = "returned"
    /\ dlValue' = v
    /\ UNCHANGED <<dlExc, dlRaisedAt>>

\* Exception e, raised at position at, leaves the function.
DlRaise(e, at) ==
    /\ pc' = "dl_done"
    /\ dlStatus' = "raised"
    /\ dlExc' = e
    /\ dlRaisedAt' = at
    /\ UNCHANGED dlValue

\* The destination is made, total = 0, the iterator is taken.
DlEnter ==
    /\ pc = "dl_entry"
    /\ pc' = "dl_iter"
    /\ safe_name' = sanitize_filename(profile_username)
    /\ total' = 0
    /\ dlStatus' = "running"
    /\ lastMsg' = "starting_download"
    /\ UNCHANGED <<outsideDl, wait, dlValue, dlExc, dlRaisedAt, i, attempt,
                   dlHist, raiseHist>>

\* The for loop takes the next post and starts its retry loop.
DlNextPost ==
    /\ pc = "dl_iter"
    /\ i < nposts
    /\ i' = i + 1
    /\ attempt' = 0
    /\ pc' = LoopTop(0, per_post_retries)
    /\ loopEnded' = IF WhileCond(0, per_post_retries) THEN loopEnded
                    ELSE loopEnded \cup {i + 1}
    /\ UNCHANGED <<outsideDl, dlLocals, lastMsg, dlRet, total, tries, succeeded,
                   backoffs, paced, raiseHist>>

\* The collection is exhausted; the count is printed and returned.
DlFinish ==
    /\ pc = "dl_iter"
    /\ i = nposts
    /\ DlReturn(total)
    /\ lastMsg' = "finished"
    /\ UNCHANGED <<outsideDl, dlLocals, dlLoop, dlHist, raiseHist>>

\* Fetching the next post raises; no handler is around the for loop.
DlIterRaise ==
    /\ pc = "dl_iter"
    /\ i < nposts
    /\ \E e \in IterRaises :
          /\ DlRaise(e, "dl_iter")
          /\ NoteRaise(e, "dl_iter")
    /\ UNCHANGED <<outsideDl, dlLocals, lastMsg, dlLoop, dlHist>>

\* Mutant: the `break` after the count is missing.
DlCallOk_NoBreak ==
    /\ pc = "dl_call"
    /\ tries' = [tries EXCEPT ![i] = @ + 1]
    /\ total' = total + 1
    /\ succeeded' = succeeded \cup {i}
    /\ pc' = LoopTop(attempt, per_post_retries)
    /\ UNCHANGED <<outsideDl, dlLocals, lastMsg, dlRet, i, attempt, loopEnded,
                   backoffs, paced, raiseHist>>

\* download_post returns; the post is counted; break.
DlCallOk ==
    /\ pc = "dl_call"
    /\ tries' = [tries EXCEPT ![i] = @ + 1]
    /\ total' = total + 1
    /\ succeeded' = succeeded \cup {i}
    /\ loopEnded' = loopEnded \cup {i}
    /\ pc' = "dl_pacing"
    /\ UNCHANGED <<outsideDl, dlLocals, lastMsg, dlRet, i, attempt, backoffs, paced,
                   raiseHist>>

\* Mutant: after the last attempt allowed the backoff sleep is skipped.
DlCallRaise_NoFinalBackoff ==
    /\ pc = "dl_call"
    /\ tries' = [tries EXCEPT ![i] = @ + 1]
    /\ \E e \in DownloadRaises :
          /\ NoteRaise(e, "dl_call")
          /\ CASE DownloadHandler(e) = "return_total" ->
                    /\ DlReturn(total)
                    /\ lastMsg' = "interrupted"
                    /\ UNCHANGED <<attempt, wait, loopEnded>>
               [] DownloadHandler(e) = "retry" ->
                    /\ attempt' = attempt + 1
                    /\ lastMsg' = DownloadMsg(e)
                    /\ IF WhileCond(attempt + 1, per_post_retries)
                       THEN /\ \E r \in RandomDraws :
                                  wait' = BackoffWait(backoff_base,
                                                      attempt + 1, r)
                            /\ pc' = "dl_backoff"
                            /\ UNCHANGED loopEnded
                       ELSE /\ pc' = "dl_pacing"
                            /\ loopEnded' = loopEnded \cup {i}
                            /\ UNCHANGED wait
                    /\ UNCHANGED dlRet
               [] OTHER ->
                    /\ DlRaise(e, "dl_call")
                    /\ UNCHANGED <<lastMsg, attempt, wait, loopEnded>>
    /\ UNCHANGED <<outsideDl, safe_name, i, total, succeeded, backoffs, paced>>

\* download_post raises e and the except clauses of its try act.
DlCallRaise ==
    /\ pc = "dl_call"
    /\ tries' = [tries EXCEPT ![i] = @ + 1]
    /\ \E e \in DownloadRaises :
          /\ NoteRaise(e, "dl_call")
          /\ CASE DownloadHandler(e) = "return_total" ->
                    /\ DlReturn(total)
                    /\ lastMsg' = "interrupted"
                    /\ UNCHANGED <<attempt, wait>>
               [] DownloadHandler(e) = "retry" ->
                    /\ attempt' = attempt + 1
                    /\ \E r \in RandomDraws :
                          wait' = BackoffWait(backoff_base, attempt + 1, r)
                    /\ lastMsg' = DownloadMsg(e)
                    /\ pc' = "dl_backoff"
                    /\ UNCHANGED dlRet
               [] OTHER ->
                    /\ DlRaise(e, "dl_call")
                    /\ UNCHANGED <<lastMsg, attempt, wait>>
    /\ UNCHANGED <<outsideDl, safe_name, i, total, succeeded, loopEnded,
                   backoffs, paced>>

\* The backoff sleep ends; continue: the loop's condition is evaluated.
DlBackoffDone ==
    /\ pc = "dl_backoff"
    /\ wait' = 0
    /\ backoffs' = [backoffs EXCEPT ![i] = Append(@, attempt)]
    /\ pc' = LoopTop(attempt, per_post_retries)
    /\ loopEnded' = IF WhileCond(attempt, per_post_retries) THEN loopEnded
                    ELSE loopEnded \cup {i}
    /\ UNCHANGED <<outsideDl, safe_name, lastMsg, dlRet, dlLoop, tries,
                   succeeded, paced, raiseHist>>

\* The backoff sleep sits inside an except clause, so what it raises is not
\* matched against the clauses of the same try: it leaves the function.
DlBackoffRaise ==
    /\ pc = "dl_backoff"
    /\ wait' = 0
    /\ \E e \in SleepRaises :
          /\ DlRaise(e, "dl_backoff")
          /\ NoteRaise(e, "dl_backoff")
    /\ UNCHANGED <<outsideDl, safe_name, lastMsg, dlLoop, dlHist>>

\* The pacing sleep ends; on to the next post.
DlPacingDone ==
    /\ pc = "dl_pacing"
    /\ paced' = [paced EXCEPT ![i] = @ + 1]
    /\ lastMsg' = "sleeping"
    /\ pc' = "dl_iter"
    /\ UNCHANGED <<outsideDl, dlLocals, dlRet, dlLoop, tries, succeeded, loopEnded,
                   backoffs, raiseHist>>

\* The pacing sleep is outside every try: what it raises leaves the function.
DlPacingRaise ==
    /\ pc = "dl_pacing"
    /\ \E e \in SleepRaises :
          /\ DlRaise(e, "dl_pacing")
          /\ NoteRaise(e, "dl_pacing")
    /\ UNCHANGED <<outsideDl, dlLocals, lastMsg, dlLoop, dlHist>>

NextDL ==
    \/ DlEnter
    \/ DlNextPost
    \/ DlFinish
    \/ DlIterRaise
    \/ DlCallOk
    \/ DlCallRaise
    \/ DlBackoffDone
    \/ DlBackoffRaise
    \/ DlPacingDone
    \/ DlPacingRaise

\* ------------------------------------------------------------- inputs
\* What the user may type at the prompts.
TargetInputs == {<<>>, <<" ">>, <<"a">>, <<" ", "a", "/", "b", " ">>}
SessionInputs == {<<>>, <<" ">>, <<"u", " ">>, <<"s">>}
UsernameInputs == {<<"v">>, <<" ", "w">>}
Answers == {<<"y", "e", "s">>, <<"Y", "E", "S">>, <<" ", "y", "e", "s", "\n">>,
            <<"n", "o">>, <<"N", "o">>, <<>>, <<"y">>, <<"y", "e", "s", "s">>,
            <<"y", " ", "e", "s">>}

\* ----------------------------------------------------- process endings

\* sys.exit(code) reached the top of the program.
ProcExit(code) ==
    /\ pc' = "end"
    /\ term' = "exit"
    /\ exitCode' = code
    /\ UNCHANGED uncaughtExc

\* main returned: the process ends with code 0.
ProcReturn ==
    /\ pc' = "end"
    /\ term' = "returned"
    /\ exitCode' = 0
    /\ UNCHANGED uncaughtExc

\* Exception e leaves main: SystemExit(1) ends the process with code 1,
\* any other class ends it with a traceback.
TopLevel(e) ==
    IF e = SystemExit
    THEN ProcExit(1)
    ELSE /\ pc' = "end"
         /\ term' = "uncaught"
         /\ uncaughtExc' = e
         /\ UNCHANGED exitCode

\* ---------------------------------------------------- login_with_session

\* What loader.load_session_from_file can raise: no file, or a file that
\* cannot be read or unpickled.
LoadRaises == {KeyboardInterrupt, FileNotFoundError, OtherException}
\* What loader.login can raise.
LoginRaises == {KeyboardInterrupt, TwoFactorAuthRequiredException,
                LoginException, ConnectionException, OtherException}
\* What loader.two_factor_login can raise.
TwoFactorRaises == {KeyboardInterrupt, LoginException, ConnectionException,
                    OtherException}
\* What loader.save_session_to_file can raise.
SaveRaises == {KeyboardInterrupt, OtherException}

\* Mutant: no clause around the session load.
LoadSessionHandler_NoClause(e) == "propagate"

\* The except clause of the session load.
LoadSessionHandler(e) ==
    IF e = FileNotFoundError THEN "fall_through" ELSE "propagate"

\* The except clauses of the login try, first match first.
LoginHandler(e) ==
    IF e = TwoFactorAuthRequiredException THEN "two_factor"
    ELSE IF e = LoginException THEN "login_failed"
    ELSE IF e = ConnectionException THEN "connection_error"
    ELSE "propagate"

\* Mutant: the clause around two_factor_login names LoginException only.
TwoFactorHandler_OnlyLoginException(e) ==
    IF e = LoginException THEN "two_factor_failed" ELSE "propagate"

\* The except clause around two_factor_login.
TwoFactorHandler(e) ==
    IF IsException(e) THEN "two_factor_failed" ELSE "propagate"

\* The except clause around each save_session_to_file.
SaveHandler(e) == IF IsException(e) THEN "swallow" ELSE "propagate"

\* The function returns name v.
LoginReturn(v) ==
    /\ pc' = "login_done"
    /\ loginStatus' = "returned"
    /\ loginValue' = v
    /\ UNCHANGED <<loginExc, loginCause>>

\* Exception e leaves the function; cause is what a RuntimeError reports.
LoginRaise(e, cause) ==
    /\ pc' = "login_done"
    /\ loginStatus' = "raised"
    /\ loginExc' = e
    /\ loginCause' = cause
    /\ UNCHANGED loginValue

\* What login_with_session never touches.
outsideLogin == <<caller, procVars, inputVars, profileVars, dlVars>>

\* `if not allow_interactive: raise RuntimeError`, else on to the prompt.
InteractiveGate ==
    IF allow_interactive
    THEN /\ pc' = "get_credentials"
         /\ UNCHANGED <<loginStatus, loginValue, loginExc, loginCause>>
    ELSE LoginRaise(RuntimeError, "no_session")

\* `if username:`: with a name the session load comes first.
LoginEnter ==
    /\ pc = "login_entry"
    /\ IF session_user # <<>>
       THEN /\ pc' = "load_session"
            /\ UNCHANGED <<loginStatus, loginValue, loginExc, loginCause>>
       ELSE InteractiveGate
    /\ UNCHANGED <<outsideLogin, lastMsg, allow_interactive, user, sessionLoad,
                   raiseHist, calls>>

\* Mutant: the `return username` after the load is missing.
LoadSessionOk_NoReturn ==
    /\ pc = "load_session"
    /\ calls' = [calls EXCEPT !["load_session"] = @ + 1]
    /\ lastMsg' = "loaded_session"
    /\ sessionLoad' = "loaded"
    /\ InteractiveGate
    /\ UNCHANGED <<outsideLogin, allow_interactive, user, raiseHist>>

\* load_session_from_file succeeds: the name is returned at once.
LoadSessionOk ==
    /\ pc = "load_session"
    /\ calls' = [calls EXCEPT !["load_session"] = @ + 1]
    /\ lastMsg' = "loaded_session"
    /\ sessionLoad' = "loaded"
    /\ LoginReturn(session_user)
    /\ UNCHANGED <<outsideLogin, allow_interactive, user, raiseHist>>

\* load_session_from_file raises.
LoadSessionRaise ==
    /\ pc = "load_session"
    /\ calls' = [calls EXCEPT !["load_session"] = @ + 1]
    /\ \E e \in LoadRaises :
          /\ NoteRaise(e, "load_session")
          /\ sessionLoad' = e
          /\ IF LoadSessionHandler(e) = "fall_through"
             THEN /\ lastMsg' = "session_file_not_found"
                  /\ InteractiveGate
             ELSE /\ LoginRaise(e, "none")
                  /\ UNCHANGED lastMsg
    /\ UNCHANGED <<outsideLogin, allow_interactive, user>>

\* get_credentials: the username and the password are typed.
GetCredentials ==
    /\ pc = "get_credentials"
    /\ \E u \in UsernameInputs : user' = Strip(u)
    /\ calls' = [calls EXCEPT !["get_credentials"] = @ + 1]
    /\ pc' = "pre_login_sleep"
    /\ UNCHANGED <<outsideLogin, lastMsg, allow_interactive, sessionLoad,
                   loginStatus, loginValue, loginExc, loginCause, raiseHist>>

\* The pause before the login call ends.
PreLoginSleepDone ==
    /\ pc = "pre_login_sleep"
    /\ pc' = "login_call"
    /\ calls' = [calls EXCEPT !["pre_login_sleep"] = @ + 1]
    /\ UNCHANGED <<outsideLogin, lastMsg, loginVars, raiseHist>>

\* loader.login succeeds.
LoginCallOk ==
    /\ pc = "login_call"
    /\ calls' = [calls EXCEPT !["login"] = @ + 1]
    /\ pc' = "save_session"
    /\ UNCHANGED <<outsideLogin, lastMsg, loginVars, raiseHist>>

\* loader.login raises e and the except clauses of its try act.
LoginCallRaise ==
    /\ pc = "login_call"
    /\ calls' = [calls EXCEPT !["login"] = @ + 1]
    /\ \E e \in LoginRaises :
          /\ NoteRaise(e, "login_call")
          /\ CASE LoginHandler(e) = "two_factor" ->
                    /\ lastMsg' = "two_factor_required"
                    /\ pc' = "input_2fa"
                    /\ UNCHANGED <<loginStatus, loginValue, loginExc, loginCause>>
               [] LoginHandler(e) \in {"login_failed", "connection_error"} ->
                    /\ LoginRaise(RuntimeError, LoginHandler(e))
                    /\ UNCHANGED lastMsg
               [] OTHER ->
                    /\ LoginRaise(e, "none")
                    /\ UNCHANGED lastMsg
    /\ UNCHANGED <<outsideLogin, allow_interactive, user, sessionLoad>>

\* The two-factor code is typed.
Input2fa ==
    /\ pc = "input_2fa"
    /\ pc' = "two_factor_call"
    /\ calls' = [calls EXCEPT !["input_2fa"] = @ + 1]
    /\ UNCHANGED <<outsideLogin, lastMsg, loginVars, raiseHist>>

\* loader.two_factor_login succeeds.
TwoFactorOk ==
    /\ pc = "two_factor_call"
    /\ calls' = [calls EXCEPT !["two_factor_login"] = @ + 1]
    /\ pc' = "save_session_2fa"
    /\ UNCHANGED <<outsideLogin, lastMsg, loginVars, raiseHist>>

\* loader.two_factor_login raises.
TwoFactorRaise ==
    /\ pc = "two_factor_call"
    /\ calls' = [calls EXCEPT !["two_factor_login"] = @ + 1]
    /\ \E e \in TwoFactorRaises :
          /\ NoteRaise(e, "two_factor_call")
          /\ IF TwoFactorHandler(e) = "two_factor_failed"
             THEN LoginRaise(RuntimeError, "two_factor_failed")
             ELSE LoginRaise(e, "none")
    /\ UNCHANGED <<outsideLogin, lastMsg, allow_interactive, user, sessionLoad>>

\* save_session_to_file after either login: it succeeds, or it raises and
\* the clause around it swallows the failure; the typed name is returned.
SaveSession ==
    /\ pc \in {"save_session", "save_session_2fa"}
    /\ calls' = [calls EXCEPT !["save_session"] = @ + 1]
    /\ \E r \in {"ok"} \cup SaveRaises :
          IF r = "ok"
          THEN /\ lastMsg' = "login_successful_session_saved"
               /\ LoginReturn(user)
               /\ UNCHANGED raiseHist
          ELSE /\ NoteRaise(r, pc)
               /\ IF SaveHandler(r) = "swallow"
                  THEN /\ lastMsg' = IF pc = "save_session"
                                     THEN "login_successful_not_saved"
                                     ELSE "login_successful_session_saved"
                       /\ LoginReturn(user)
                  ELSE /\ LoginRaise(r, "none")
                       /\ UNCHANGED lastMsg
    /\ UNCHANGED <<outsideLogin, allow_interactive, user, sessionLoad>>

\* The user's interrupt at a prompt or pause of the function: none of them
\* is inside a try whose clauses match it.
LoginInterrupt ==
    /\ pc \in {"get_credentials", "pre_login_sleep", "input_2fa"}
    /\ \E e \in SleepRaises :
          /\ NoteRaise(e, pc)
          /\ LoginRaise(e, "none")
    /\ calls' = [calls EXCEPT ![pc] = @ + 1]
    /\ UNCHANGED <<outsideLogin, lastMsg, allow_interactive, user, sessionLoad>>

NextLogin ==
    \/ LoginEnter
    \/ LoadSessionOk
    \/ LoadSessionRaise
    \/ GetCredentials
    \/ PreLoginSleepDone
    \/ LoginCallOk
    \/ LoginCallRaise
    \/ Input2fa
    \/ TwoFactorOk
    \/ TwoFactorRaise
    \/ SaveSession
    \/ LoginInterrupt

\* ------------------------------------------------------------------ main

\* What socket.gethostbyname can raise inside check_dns.
DnsRaises == {KeyboardInterrupt, OSError}
\* What Profile.from_username can raise.
ProfileRaises == {KeyboardInterrupt, ProfileNotExistsException,
                  QueryReturnedNotFoundException, ConnectionException,
                  OtherException}
\* What loader.test_login can raise.
TestLoginRaises == {KeyboardInterrupt, ConnectionException, OtherException}

\* check_dns's except clause: the failure is printed and False returned.
DnsHandler(e) == IF IsException(e) THEN "return_false" ELSE "propagate"

\* main's except clause around login_with_session.
MainLoginHandler(e) == IF e = RuntimeError THEN "prompt" ELSE "propagate"

\* Mutant: everything but a plain `no` is taken for consent.
ConsentGiven_AnythingButNo(answer) == Lower(Strip(answer)) # <<"n", "o">>

\* `proceed = input(...).strip().lower()` and the test `proceed != "yes"`.
ConsentGiven(answer) == Lower(Strip(answer)) = <<"y", "e", "s">>

\* Mutant: the blanket clause is missing.
ProfileHandler_NoBlanketClause(e) ==
    IF e = ProfileNotExistsException THEN "profile_does_not_exist"
    ELSE IF e = QueryReturnedNotFoundException THEN "query_not_found"
    ELSE IF e = ConnectionException THEN "profile_connection_error"
    ELSE "propagate"

\* The except clauses around Profile.from_username, first match first: the
\* message each prints before its sys.exit(1).
ProfileHandler(e) ==
    IF e = ProfileNotExistsException THEN "profile_does_not_exist"
    ELSE IF e = QueryReturnedNotFoundException THEN "query_not_found"
    ELSE IF e = ConnectionException THEN "profile_connection_error"
    ELSE IF IsException(e) THEN "profile_unexpected_error"
    ELSE "propagate"

\* Mutant: no clause around the private-profile check.
PrivateCheckHandler_NoClause(e) == "propagate"

\* Mutant: a bare `except:` around the private-profile check.
PrivateCheckHandler_Bare(e) == "swallow"

\* The except clause around the private-profile check.
PrivateCheckHandler(e) == IF IsException(e) THEN "swallow" ELSE "propagate"

\* The except clauses around the download pass, first match first.
MainDownloadHandler(e) ==
    IF e = KeyboardInterrupt THEN "interrupted"
    ELSE IF IsException(e) THEN "download_unexpected_error"
    ELSE "propagate"

\* What main's steps before the download pass never touch.
outsideMain == <<caller, loginVars, dlLocals, dlRet, dlLoop, dlHist>>

\* The call of download_posts_with_delays with main's parameters.
CallDownload ==
    /\ pc' = "dl_entry"
    /\ per_post_retries' = PER_POST_RETRIES
    /\ backoff_base' = BACKOFF_BASE
    /\ profile_username' = target_profile
    /\ calls' = [calls EXCEPT !["download_posts"] = @ + 1]

\* check_dns returns True and the client object is constructed.
MainDnsOk ==
    /\ pc = "check_dns"
    /\ calls' = [calls EXCEPT !["Instaloader"] = @ + 1]
    /\ pc' = "input_target"
    /\ UNCHANGED <<outsideMain, procVars, inputVars, profileVars,
                   dlParams, lastMsg, raiseHist>>

\* The name resolution raises: a failure makes check_dns return False and
\* main exit; the interrupt passes check_dns's clause.
MainDnsRaise ==
    /\ pc = "check_dns"
    /\ \E e \in DnsRaises :
          /\ NoteRaise(e, "check_dns")
          /\ IF DnsHandler(e) = "return_false"
             THEN /\ lastMsg' = "check_your_connection"
                  /\ TopLevel(SystemExit)
             ELSE /\ TopLevel(e)
                  /\ UNCHANGED lastMsg
    /\ UNCHANGED <<outsideMain, inputVars, profileVars, dlParams, calls>>

\* Mutant: the empty handle is not refused.
MainInputTarget_NoCheck ==
    /\ pc = "input_target"
    /\ \E t \in TargetInputs : target_profile' = Strip(t)
    /\ pc' = "input_session"
    /\ UNCHANGED <<outsideMain, procVars, lastMsg, session_user, used_user,
                   proceed, profileVars, dlParams, raiseHist, calls>>

\* The target handle is typed and stripped; an empty one ends the run.
MainInputTarget ==
    /\ pc = "input_target"
    /\ \E t \in TargetInputs :
          /\ target_profile' = Strip(t)
          /\ IF Strip(t) = <<>>
             THEN /\ lastMsg' = "no_username_provided"
                  /\ TopLevel(SystemExit)
             ELSE /\ pc' = "input_session"
                  /\ UNCHANGED <<lastMsg, procVars>>
    /\ UNCHANGED <<outsideMain, session_user, used_user, proceed, profileVars,
                   dlParams, raiseHist, calls>>

\* The session username is typed and stripped (empty: None);
\* login_with_session is called.
MainInputSession ==
    /\ pc = "input_session"
    /\ \E t \in SessionInputs : session_user' = Strip(t)
    /\ pc' = "login_entry"
    /\ loginStatus' = "running"
    /\ UNCHANGED <<caller, procVars, target_profile, used_user, proceed,
                   allow_interactive, user, sessionLoad, loginValue, loginExc,
                   loginCause,
                   profileVars, dlVars, lastMsg, raiseHist, calls>>

\* login_with_session is over: its name is kept, its RuntimeError leads to
\* the consent prompt, any other class leaves main.
MainAfterLogin ==
    /\ pc = "login_done"
    /\ caller = "main"
    /\ IF loginStatus = "returned"
       THEN /\ used_user' = [kind |-> "name", name |-> loginValue]
            /\ pc' = "pause_profile"
            /\ UNCHANGED <<procVars, lastMsg>>
       ELSE IF MainLoginHandler(loginExc) = "prompt"
       THEN /\ lastMsg' = "login_session_error"
            /\ pc' = "input_proceed"
            /\ UNCHANGED <<procVars, used_user>>
       ELSE /\ TopLevel(loginExc)
            /\ UNCHANGED <<lastMsg, used_user>>
    /\ UNCHANGED <<outsideMain, target_profile, session_user, proceed,
                   profileVars, dlParams, raiseHist, calls>>

\* The answer to "Continue without login?" is typed.
MainInputProceed ==
    /\ pc = "input_proceed"
    /\ \E a \in Answers :
          /\ proceed' = [asked |-> TRUE, raw |-> a]
          /\ IF ConsentGiven(a)
             THEN /\ used_user' = [kind |-> "none", name |-> <<>>]
                  /\ pc' = "pause_profile"
                  /\ UNCHANGED procVars
             ELSE /\ TopLevel(SystemExit)
                  /\ UNCHANGED used_user
    /\ UNCHANGED <<outsideMain, target_profile, session_user, profileVars,
                   dlParams, lastMsg, raiseHist, calls>>

\* The pause before the profile query ends.
MainPauseDone ==
    /\ pc = "pause_profile"
    /\ pc' = "from_username"
    /\ UNCHANGED <<outsideMain, procVars, inputVars, profileVars,
                   dlParams, lastMsg, raiseHist, calls>>

\* Profile.from_username returns a profile.
MainProfileOk ==
    /\ pc = "from_username"
    /\ calls' = [calls EXCEPT !["from_username"] = @ + 1]
    /\ isPrivate' \in BOOLEAN
    /\ nposts' \in 0..MaxMainPosts
    /\ pc' = "private_check"
    /\ UNCHANGED <<outsideMain, procVars, inputVars, testLogin,
                   dlParams, lastMsg, raiseHist>>

\* Profile.from_username raises: every clause prints and exits with 1.
MainProfileRaise ==
    /\ pc = "from_username"
    /\ calls' = [calls EXCEPT !["from_username"] = @ + 1]
    /\ \E e \in ProfileRaises :
          /\ NoteRaise(e, "from_username")
          /\ IF ProfileHandler(e) = "propagate"
             THEN /\ TopLevel(e)
                  /\ UNCHANGED lastMsg
             ELSE /\ lastMsg' = ProfileHandler(e)
                  /\ TopLevel(SystemExit)
    /\ UNCHANGED <<outsideMain, inputVars, profileVars, dlParams>>

\* The profile is public: the download pass is called.
MainPublicProfile ==
    /\ pc = "private_check"
    /\ ~isPrivate
    /\ CallDownload
    /\ UNCHANGED <<outsideMain, procVars, inputVars, profileVars, lastMsg,
                   raiseHist>>

\* The profile is private and loader.test_login() answers.  Without a valid
\* session sys.exit(1) is raised inside the try, so its clause is asked.
MainTestLogin ==
    /\ pc = "private_check"
    /\ isPrivate
    /\ \E valid \in BOOLEAN :
          /\ testLogin' = IF valid THEN "true" ELSE "false"
          /\ IF valid
             THEN /\ CallDownload
                  /\ UNCHANGED <<procVars, lastMsg>>
             ELSE /\ lastMsg' = "profile_is_private"
                  /\ IF PrivateCheckHandler(SystemExit) = "swallow"
                     THEN /\ CallDownload
                          /\ UNCHANGED procVars
                     ELSE /\ TopLevel(SystemExit)
                          /\ UNCHANGED <<dlParams, calls>>
    /\ UNCHANGED <<outsideMain, inputVars, isPrivate, nposts, raiseHist>>

\* The profile is private and loader.test_login() raises.
MainTestLoginRaise ==
    /\ pc = "private_check"
    /\ isPrivate
    /\ testLogin' = "raised"
    /\ \E e \in TestLoginRaises :
          /\ NoteRaise(e, "test_login")
          /\ IF PrivateCheckHandler(e) = "swallow"
             THEN /\ CallDownload
                  /\ UNCHANGED procVars
             ELSE /\ TopLevel(e)
                  /\ UNCHANGED <<dlParams, calls>>
    /\ UNCHANGED <<outsideMain, inputVars, isPrivate, nposts, lastMsg>>

\* The download pass is over: main prints what its clauses say and returns.
MainAfterDownload ==
    /\ pc = "dl_done"
    /\ caller = "main"
    /\ IF dlStatus = "returned"
       THEN /\ ProcReturn
            /\ UNCHANGED lastMsg
       ELSE IF MainDownloadHandler(dlExc) = "propagate"
       THEN /\ TopLevel(dlExc)
            /\ UNCHANGED lastMsg
       ELSE /\ lastMsg' = MainDownloadHandler(dlExc)
            /\ ProcReturn
    /\ UNCHANGED <<outsideMain, inputVars, profileVars, dlParams,
                   raiseHist, calls>>

\* The user's interrupt at one of main's own prompts or pauses: no try is
\* around any of them.
MainInterrupt ==
    /\ pc \in {"input_target", "input_session", "input_proceed", "pause_profile"}
    /\ \E e \in SleepRaises :
          /\ NoteRaise(e, pc)
          /\ TopLevel(e)
    /\ UNCHANGED <<outsideMain, inputVars, profileVars, dlParams,
                   lastMsg, calls>>

NextMain ==
    \/ MainDnsOk
    \/ MainDnsRaise
    \/ MainInputTarget
    \/ MainInputSession
    \/ MainAfterLogin
    \/ MainInputProceed
    \/ MainPauseDone
    \/ MainProfileOk
    \/ MainProfileRaise
    \/ MainPublicProfile
    \/ MainTestLogin
    \/ MainTestLoginRaise
    \/ MainAfterDownload
    \/ MainInterrupt

Next == NextMain \/ NextLogin \/ NextDL

\* ------------------------------------------------------ initial states

\* The state every run starts from, before the position is chosen.
Blank ==
    /\ term = "running"
    /\ exitCode = -1
    /\ uncaughtExc = "none"
    /\ lastMsg = ""
    /\ target_profile = <<>>
    /\ used_user = [kind |-> "unset", name |-> <<>>]
    /\ proceed = [asked |-> FALSE, raw |-> <<>>]
    /\ user = <<>>
    /\ loginStatus = "idle"
    /\ loginValue = <<>>
    /\ loginExc = "none"
    /\ loginCause = "none"
    /\ sessionLoad = "notcalled"
    /\ isPrivate = FALSE
    /\ testLogin = "notcalled"
    /\ i = 0
    /\ attempt = 0
    /\ total = 0
    /\ safe_name = <<>>
    /\ wait = 0
    /\ dlStatus = "idle"
    /\ dlValue = -1
    /\ dlExc = "none"
    /\ dlRaisedAt = "none"
    /\ tries = [p \in Posts |-> 0]
    /\ succeeded = {}
    /\ loopEnded = {}
    /\ backoffs = [p \in Posts |-> <<>>]
    /\ paced = [p \in Posts |-> 0]
    /\ interruptedAt = "none"
    /\ failedAt = {}
    /\ calls = [f \in ExternalOps |-> 0]

\* download_posts_with_delays called on its own, with any retry count and
\* any finite post collection.
InitDL ==
    /\ Blank
    /\ caller = "direct"
    /\ allow_interactive = TRUE
    /\ session_user = <<>>
    /\ pc = "dl_entry"
    /\ nposts \in 0..MaxPosts
    /\ per_post_retries \in 0..MaxRetries
    /\ backoff_base \in {2, 3}
    /\ profile_username = <<"a">>

SpecDL == InitDL /\ [][NextDL]_vars

\* The same, where every call and every sleep comes to an end: it returns
\* or it raises.
FairSpecDL == SpecDL /\ WF_vars(NextDL)

\* The names sanitize_filename is examined on: every string of up to
\* MaxNameLen characters over the unsafe characters, the space and a
\* letter, and the name a/b:c.
NameAlphabet == Unsafe \cup {" ", "a"}
Names ==
    UNION {[1..n -> NameAlphabet] : n \in 0..MaxNameLen}
        \cup {<<"a", "/", "b", ":", "c">>}

\* The entry of download_posts_with_delays alone, for any profile name.
InitSan ==
    /\ Blank
    /\ caller = "direct"
    /\ allow_interactive = TRUE
    /\ session_user = <<>>
    /\ pc = "dl_entry"
    /\ nposts = 0
    /\ per_post_retries = 0
    /\ backoff_base = BACKOFF_BASE
    /\ profile_username \in Names

SpecSan == InitSan /\ [][DlEnter]_vars

\* login_with_session called on its own, with or without a session
\* username, interactive or not.
InitLogin ==
    /\ Blank
    /\ caller = "direct"
    /\ allow_interactive \in BOOLEAN
    /\ pc = "login_entry"
    /\ session_user \in {Strip(t) : t \in SessionInputs}
    /\ nposts = 0
    /\ per_post_retries = 0
    /\ backoff_base = BACKOFF_BASE
    /\ profile_username = <<>>

SpecLogin == InitLogin /\ [][NextLogin]_vars

\* A run of main: the process starts at the preflight check.
Init ==
    /\ Blank
    /\ caller = "main"
    /\ allow_interactive = TRUE
    /\ session_user = <<>>
    /\ pc = "check_dns"
    /\ nposts = 0
    /\ per_post_retries = 0
    /\ backoff_base = BACKOFF_BASE
    /\ profile_username = <<>>

Spec == Init /\ [][Next]_vars

\* ------------------------------------------------------------- claims

\* Number of posts among the first n whose download succeeded.
SucceededUpTo(n) == Cardinality(succeeded \cap (1..n))

\* C1: a post whose download_post call fails on every attempt is attempted
\* exactly per_post_retries + 1 times before its retry loop ends, never
\* more while the loop runs, and the success counter counts only the posts
\* that succeeded, so not that one.
C1_FailingPostAttemptedRPlus1 ==
    \A p \in 1..nposts :
        /\ p \notin succeeded => tries[p] <= per_post_retries + 1
        /\ (p \in loopEnded /\ p \notin succeeded) =>
              /\ tries[p] = per_post_retries + 1
              /\ total = Cardinality(succeeded)

C1_Witness ==
    /\ dlStatus = "returned"
    /\ interruptedAt = "none"
    /\ per_post_retries = 2
    /\ nposts >= 2
    /\ 1 \in loopEnded /\ 1 \notin succeeded /\ tries[1] = 3
    /\ 2 \in succeeded
    /\ total = 1

\* C2: a user interrupt raised at any point inside
\* download_posts_with_delays (download, backoff sleep or pacing sleep)
\* makes the function return the current success count.
C2_InterruptAnywhereReturnsCount ==
    (interruptedAt \in {"dl_call", "dl_backoff", "dl_pacing"} /\ pc = "dl_done") =>
        (dlStatus = "returned" /\ dlValue = total)

\* C3: a user interrupt raised during the download_post call of post N ends
\* the function at once with the number of posts among the first N-1 that
\* succeeded, post N is not counted and no later post was attempted; and no
\* download_post call is made after the interrupt.
C3_InterruptDuringDownload ==
    /\ [](interruptedAt = "dl_call" =>
            /\ pc = "dl_done"
            /\ dlStatus = "returned"
            /\ dlValue = SucceededUpTo(i - 1)
            /\ i \notin succeeded
            /\ \A p \in Posts : p > i => tries[p] = 0)
    /\ [][interruptedAt = "dl_call" => tries' = tries]_vars

C3_Witness ==
    /\ interruptedAt = "dl_call"
    /\ i = 3
    /\ tries[3] = 2
    /\ 1 \in succeeded /\ 2 \notin succeeded
    /\ dlStatus = "returned"
    /\ dlValue = 1

\* C5: no failure of download_post leaves the function: an exception that
\* leaves it was raised by the iteration or by a sleep; and when the function
\* returns without a user interrupt every post of the collection was
\* attempted at least once, whatever happened to the earlier ones.
C5_DownloadFailuresNeverPropagate ==
    /\ dlStatus = "raised" => dlRaisedAt \in {"dl_iter", "dl_backoff", "dl_pacing"}
    /\ (dlStatus = "returned" /\ interruptedAt = "none") =>
            \A p \in 1..nposts : tries[p] >= 1 /\ p \in loopEnded
    /\ (pc = "dl_done" /\ interruptedAt = "none" /\ "dl_iter" \notin failedAt) =>
            dlStatus = "returned"

C5_Witness ==
    /\ dlStatus = "returned"
    /\ interruptedAt = "none"
    /\ nposts = 3
    /\ "dl_call" \in failedAt
    /\ 1 \notin succeeded /\ 2 \notin succeeded
    /\ tries[3] >= 1

\* C6: exactly one pacing sleep follows each post's retry loop, after success
\* and after exhaustion alike and after the last post too, and it comes
\* before the next post's first attempt; a pass over N posts that returns
\* without interrupt made N pacing sleeps, and returns N when every post
\* succeeded on its first try.
C6_OnePacingSleepPerPost ==
    /\ \A p \in Posts :
          /\ paced[p] <= 1
          /\ paced[p] = 1 => p \in loopEnded
          /\ (p \in loopEnded /\ (i > p \/ pc = "dl_iter" \/ dlStatus = "returned"))
                => paced[p] = 1
          /\ (p > 1 /\ (tries[p] > 0 \/ i >= p)) => paced[p - 1] = 1
    /\ (dlStatus = "returned" /\ interruptedAt = "none") =>
          /\ Cardinality({p \in Posts : paced[p] = 1}) = nposts
          /\ (\A p \in 1..nposts : tries[p] = 1 /\ p \in succeeded) => dlValue = nposts

C6_Witness ==
    /\ dlStatus = "returned"
    /\ interruptedAt = "none"
    /\ nposts = 3
    /\ \A p \in 1..3 : tries[p] = 1 /\ p \in succeeded /\ paced[p] = 1
    /\ dlValue = 3

\* C4: a user interrupt raised at any point of a run of main is caught and
\* ends the run gracefully: main never terminates with an uncaught
\* KeyboardInterrupt.
C4_InterruptNeverUncaught ==
    ~(term = "uncaught" /\ uncaughtExc = KeyboardInterrupt)

\* C7: when the resolved profile is private and test_login() reports no
\* valid session, the process exits with code 1 and
\* download_posts_with_delays is never called.
C7_PrivateWithoutSessionExits ==
    (isPrivate /\ testLogin = "false") =>
        /\ term = "exit"
        /\ exitCode = 1
        /\ lastMsg = "profile_is_private"
        /\ calls["download_posts"] = 0
        /\ dlStatus = "idle"
        /\ \A p \in Posts : tries[p] = 0

C7_Witness ==
    /\ isPrivate
    /\ testLogin = "false"
    /\ calls["from_username"] = 1
    /\ term = "exit"
    /\ exitCode = 1

\* C8: any failure of profile resolution ends the run with exit code 1
\* after a message; the resolution is attempted exactly once, never
\* retried, and no download is attempted afterwards.
C8_ProfileFailureIsFatal ==
    /\ calls["from_username"] <= 1
    /\ "from_username" \in failedAt =>
          /\ term = "exit"
          /\ exitCode = 1
          /\ lastMsg \in {"profile_does_not_exist", "query_not_found",
                          "profile_connection_error", "profile_unexpected_error"}
          /\ calls["from_username"] = 1
          /\ calls["download_posts"] = 0
          /\ dlStatus = "idle"
          /\ \A p \in Posts : tries[p] = 0

C8_Witness ==
    /\ "from_username" \in failedAt
    /\ lastMsg = "profile_unexpected_error"
    /\ term = "exit"
    /\ exitCode = 1

\* C9: whatever failure the external client raises in any phase of main,
\* with no user interrupt, the run ends by normal return or by sys.exit with
\* code 0 or 1 after printing a message, never with an uncaught exception.
C9_NoFailureUncaught ==
    (term # "running" /\ interruptedAt = "none") =>
        /\ term \in {"returned", "exit"}
        /\ exitCode \in {0, 1}
        /\ lastMsg # ""

\* C10 as stated: after an authentication failure the run goes on to
\* profile resolution only if the answer to the consent prompt is exactly
\* `yes`.
C10_OnlyExactYesContinues ==
    (proceed.asked /\ used_user.kind = "none") => proceed.raw = <<"y", "e", "s">>

\* C10 as amended: after an authentication failure the run goes on,
\* unauthenticated, to profile resolution exactly when the answer, stripped
\* of surrounding whitespace and lowercased, is `yes`; with any other answer
\* the process exits with code 1 and neither profile resolution nor any
\* download is attempted.  Without that answer no resolution follows a
\* failed login.
C10_NormalisedYesContinues ==
    /\ (loginStatus = "raised" /\ loginExc = RuntimeError) =>
          loginCause \in {"login_failed", "connection_error", "two_factor_failed"}
    /\ (loginStatus = "raised" /\ calls["from_username"] > 0) =>
          /\ loginExc = RuntimeError
          /\ proceed.asked
          /\ Lower(Strip(proceed.raw)) = <<"y", "e", "s">>
    /\ (proceed.asked /\ Lower(Strip(proceed.raw)) = <<"y", "e", "s">>) =>
          /\ used_user.kind = "none"
          /\ ~(term = "exit" /\ calls["from_username"] = 0)
    /\ (proceed.asked /\ Lower(Strip(proceed.raw)) # <<"y", "e", "s">>) =>
          /\ term = "exit"
          /\ exitCode = 1
          /\ calls["from_username"] = 0
          /\ calls["download_posts"] = 0
          /\ \A p \in Posts : tries[p] = 0

C10_Witness ==
    /\ loginCause = "two_factor_failed"
    /\ proceed.asked
    /\ proceed.raw = <<" ", "y", "e", "s", "\n">>
    /\ calls["from_username"] = 1
    /\ pc = "dl_call"

\* C11: in login_with_session, when a username is given and
\* load_session_from_file succeeds for it, the function returns that
\* username at once: no credential prompt, no pre-login pause, no login or
\* two-factor call and no save_session_to_file call is made.
C11_LoadedSessionReturnsAtOnce ==
    sessionLoad = "loaded" =>
        /\ pc = "login_done"
        /\ loginStatus = "returned"
        /\ session_user # <<>>
        /\ loginValue = session_user
        /\ user = <<>>
        /\ \A f \in {"get_credentials", "pre_login_sleep", "login", "input_2fa",
                     "two_factor_login", "save_session"} : calls[f] = 0

C11_Witness ==
    /\ sessionLoad = "loaded"
    /\ calls["load_session"] = 1
    /\ loginStatus = "returned"
    /\ loginValue = <<"u">>

\* C12: in login_with_session, when a username is given but no session file
\* exists for it (FileNotFoundError), the load step raises nothing: with
\* allow_interactive the function goes on to the credential prompt and the
\* login, and without it the function fails at once with a RuntimeError,
\* without prompting and without calling loader.login.
C12_MissingSessionFallsThrough ==
    sessionLoad = FileNotFoundError =>
        /\ ~(loginStatus = "raised" /\ loginExc = FileNotFoundError)
        /\ allow_interactive =>
              /\ pc = "get_credentials" \/ calls["get_credentials"] = 1
              /\ ~(loginStatus = "raised" /\ loginCause = "no_session")
              /\ \/ calls["login"] = 1
                 \/ pc \in {"get_credentials", "pre_login_sleep", "login_call"}
                 \/ interruptedAt \in {"get_credentials", "pre_login_sleep"}
        /\ ~allow_interactive =>
              /\ pc = "login_done"
              /\ loginStatus = "raised"
              /\ loginExc = RuntimeError
              /\ loginCause = "no_session"
              /\ \A f \in {"get_credentials", "pre_login_sleep", "login"} :
                    calls[f] = 0

C12_Witness ==
    /\ sessionLoad = FileNotFoundError
    /\ allow_interactive
    /\ calls["get_credentials"] = 1
    /\ calls["login"] = 1
    /\ loginStatus = "returned"
    /\ loginValue = <<"v">>

\* C13: when loader.login raises the two-factor-required condition a code
\* is prompted and submitted once with two_factor_login; any failure of the
\* submission makes login_with_session raise a RuntimeError and return no
\* username; a successful submission returns the typed username, also when
\* saving the session fails.
C13_TwoFactorSubmission ==
    /\ calls["two_factor_login"] <= 1
    /\ calls["input_2fa"] <= 1
    /\ pc \in {"input_2fa", "two_factor_call", "save_session_2fa"} =>
          calls["login"] = 1 /\ "login_call" \in failedAt
    /\ calls["two_factor_login"] = 1 =>
          calls["input_2fa"] = 1 /\ calls["login"] = 1
    /\ "two_factor_call" \in failedAt =>
          /\ pc = "login_done"
          /\ loginStatus = "raised"
          /\ loginExc = RuntimeError
          /\ loginCause = "two_factor_failed"
          /\ loginValue = <<>>
    /\ (/\ calls["two_factor_login"] = 1
        /\ "two_factor_call" \notin failedAt
        /\ interruptedAt \notin {"two_factor_call", "save_session_2fa"}
        /\ pc = "login_done") =>
          loginStatus = "returned" /\ loginValue = user
    /\ "save_session_2fa" \in failedAt =>
          loginStatus = "returned" /\ loginValue = user /\ user # <<>>

C13_Witness ==
    /\ calls["two_factor_login"] = 1
    /\ "save_session_2fa" \in failedAt
    /\ loginStatus = "returned"
    /\ loginValue = <<"w">>

\* C14: sanitize_filename, on every name over the unsafe characters
\* < > : " / \ | ? *, newline, carriage return, tab, the space and a letter:
\* the result contains none of the unsafe characters, has no leading or
\* trailing whitespace, and is the name with each unsafe character replaced
\* by one underscore and the surrounding spaces removed (a/b:c gives a_b_c).
C14_SanitizedNameIsSafe ==
    dlStatus # "idle" =>
        /\ \A k \in 1..Len(safe_name) : safe_name[k] \notin Unsafe
        /\ safe_name # <<>> =>
              /\ safe_name[1] \notin Whitespace
              /\ safe_name[Len(safe_name)] \notin Whitespace
        /\ \E lo \in 0..Len(profile_username) :
              /\ lo + Len(safe_name) <= Len(profile_username)
              /\ \A k \in 1..Len(safe_name) :
                    safe_name[k] = IF profile_username[lo + k] \in Unsafe
                                   THEN "_"
                                   ELSE profile_username[lo + k]
              /\ \A k \in 1..Len(profile_username) :
                    (k <= lo \/ k > lo + Len(safe_name)) =>
                        profile_username[k] = " "
        /\ profile_username = <<"a", "/", "b", ":", "c">> =>
              safe_name = <<"a", "_", "b", "_", "c">>

C14_Witness ==
    /\ dlStatus = "running"
    /\ profile_username = <<" ", "\t", " ">>
    /\ safe_name = <<"_">>

\* C15 (as the specification states it): the backoff sleep after the a-th
\* failed attempt of a post lasts backoff_base^a plus a jitter in
\* [0.5, 2.0), so it lies in [backoff_base^a + 0.5, backoff_base^a + 2.0);
\* the exponent restarts at 1 for every new post, and this is the same for
\* connection failures and all other failures.
C15_WaitBelowUpperEnd ==
    /\ pc = "dl_backoff" =>
          /\ attempt = tries[i]
          /\ wait >= Pow(backoff_base, tries[i]) * Unit + Unit \div 2
          /\ wait < Pow(backoff_base, tries[i]) * Unit + 2 * Unit
    /\ \A p \in Posts : \A k \in 1..Len(backoffs[p]) : backoffs[p][k] = k

\* C15 (amended): the jitter lies in [0.5, 2.0), but the float sum is
\* rounded, so the backoff sleep after the a-th failed attempt lies in the
\* closed range [backoff_base^a + 0.5, backoff_base^a + 2.0]; the exponent
\* restarts at 1 for every new post, and this is the same for connection
\* failures and all other failures.
C15_WaitInClosedRange ==
    /\ \A r \in RandomDraws :
          /\ Uniform(Unit \div 2, 2 * Unit, r) >= Unit \div 2
          /\ Uniform(Unit \div 2, 2 * Unit, r) < 2 * Unit
    /\ pc = "dl_backoff" =>
          /\ lastMsg \in {"connection_error_retry", "error_retry"}
          /\ attempt = tries[i]
          /\ tries[i] >= 1
          /\ wait >= Pow(backoff_base, tries[i]) * Unit + Unit \div 2
          /\ wait <= Pow(backoff_base, tries[i]) * Unit + 2 * Unit
    /\ \A p \in Posts : \A k \in 1..Len(backoffs[p]) : backoffs[p][k] = k

\* The second failure of the second post, after the first post failed
\* twice: the exponent is 2 again and the sleep is at the upper end.
C15_Witness ==
    /\ pc = "dl_backoff"
    /\ i = 2
    /\ backoffs[1] = <<1, 2>>
    /\ backoffs[2] = <<1>>
    /\ tries[2] = 2
    /\ lastMsg = "error_retry"
    /\ wait = Pow(backoff_base, 2) * Unit + 2 * Unit

\* C16: in main, when the resolved profile is private and
\* loader.test_login() itself raises an Exception, the run does not exit:
\* download_posts_with_delays is called.
C16_FailedValidityCheckProceeds ==
    (isPrivate /\ testLogin = "raised" /\ "test_login" \in failedAt) =>
        /\ calls["download_posts"] = 1
        /\ pc = "dl_entry" \/ dlStatus # "idle"
        /\ lastMsg # "profile_is_private"
        /\ term = "exit" => dlStatus # "idle"

C16_Witness ==
    /\ isPrivate
    /\ testLogin = "raised"
    /\ "test_login" \in failedAt
    /\ calls["download_posts"] = 1
    /\ dlStatus = "returned"
    /\ dlValue = 1
    /\ term = "returned"

\* C17: in every run of main the phases come in the order preflight check,
\* target prompt, session resolver, profile resolution, download.  A failed
\* preflight check exits with code 1 before anything else is done, and an
\* empty target handle exits with code 1 before the session resolver is
\* entered or any method of the client is called; profile resolution is not
\* started before the session resolver has concluded, with a name or with a
\* failure the user consented to pass; and no download pass, no validity
\* check and no download_post call happens before profile resolution has
\* succeeded.
C17_PhasesInOrder ==
    /\ "check_dns" \in failedAt =>
          /\ term = "exit" /\ exitCode = 1
          /\ \A f \in ExternalOps : calls[f] = 0
          /\ target_profile = <<>> /\ ~proceed.asked
          /\ loginStatus = "idle" /\ testLogin = "notcalled"
          /\ dlStatus = "idle"
    /\ lastMsg = "no_username_provided" =>
          /\ term = "exit" /\ exitCode = 1
          /\ \A f \in ExternalOps \ {"Instaloader"} : calls[f] = 0
          /\ loginStatus = "idle" /\ testLogin = "notcalled"
          /\ dlStatus = "idle"
    /\ pc \notin {"check_dns", "end"} =>
          /\ "check_dns" \notin failedAt
          /\ calls["Instaloader"] = 1
    /\ (pc \notin {"check_dns", "input_target", "end"}
            \/ loginStatus # "idle") =>
          target_profile # <<>>
    /\ (pc \in {"pause_profile", "from_username"}
            \/ calls["from_username"] > 0) =>
          /\ loginStatus \in {"returned", "raised"}
          /\ used_user.kind \in {"name", "none"}
          /\ used_user.kind = "name" =>
                loginStatus = "returned" /\ used_user.name = loginValue
          /\ used_user.kind = "none" =>
                /\ loginStatus = "raised" /\ loginExc = RuntimeError
                /\ proceed.asked
                /\ Lower(Strip(proceed.raw)) = <<"y", "e", "s">>
    /\ (pc = "dl_entry" \/ dlStatus # "idle" \/ testLogin # "notcalled"
            \/ calls["download_posts"] > 0 \/ \E p \in Posts : tries[p] > 0) =>
          /\ calls["from_username"] = 1
          /\ "from_username" \notin failedAt
          /\ interruptedAt # "from_username"
    /\ (\E p \in Posts : tries[p] > 0) => calls["download_posts"] = 1
    /\ calls["from_username"] <= 1
    /\ calls["download_posts"] <= 1

\* A whole run: consent after a failed login, the profile resolved, and a
\* post downloaded.
C17_Witness ==
    /\ "check_dns" \notin failedAt
    /\ target_profile = <<"a", "/", "b">>
    /\ loginStatus = "raised"
    /\ used_user.kind = "none"
    /\ calls["from_username"] = 1
    /\ calls["download_posts"] = 1
    /\ tries[1] = 1
    /\ succeeded = {1}
    /\ term = "returned"

\* C18: in download_posts_with_delays the counter total always equals the
\* number of posts whose download_post call has returned; it never
\* decreases; it grows by one only for the post at hand, and only once for
\* it; a post whose download has succeeded is never attempted again; so the
\* count returned never exceeds the number of posts iterated.
C18_TotalCountsSuccesses ==
    /\ [](/\ total = Cardinality(succeeded)
          /\ succeeded \subseteq 1..i
          /\ dlStatus = "returned" =>
                dlValue = total /\ dlValue <= i /\ dlValue <= nposts)
    /\ [][/\ total' >= total
          /\ total' <= total + 1
          /\ total' = total + 1 =>
                i' = i /\ i \notin succeeded /\ succeeded' = succeeded \cup {i}
          /\ \A p \in succeeded : tries'[p] = tries[p]]_vars

C18_Witness ==
    /\ nposts = 3
    /\ succeeded = {1, 3}
    /\ total = 2
    /\ tries[2] = per_post_retries + 1
    /\ tries[3] = 2
    /\ dlStatus = "returned"
    /\ dlValue = 2

\* download_post calls for post p that raised an Exception.
FailedAttempts(p) ==
    tries[p] - (IF p \in succeeded THEN 1 ELSE 0)
             - (IF p = i /\ interruptedAt = "dl_call" THEN 1 ELSE 0)

\* The backoff sleep of post p that is in progress, or was interrupted.
SleepInProgress(p) ==
    IF p = i /\ (pc = "dl_backoff" \/ interruptedAt = "dl_backoff")
    THEN 1 ELSE 0

\* C19: in download_posts_with_delays every failed attempt is followed by a
\* backoff sleep, the final (R+1)-th one included, after which no retry
\* follows; a post that fails every attempt incurs exactly R+1 backoff
\* sleeps, with exponents 1 to R+1, and then one pacing sleep before the
\* next post is attempted.
C19_BackoffAfterEveryFailure ==
    \A p \in Posts :
        /\ Len(backoffs[p]) + SleepInProgress(p) = FailedAttempts(p)
        /\ backoffs[p] = [k \in 1..Len(backoffs[p]) |-> k]
        /\ (p \in loopEnded /\ p \notin succeeded) =>
              /\ tries[p] = per_post_retries + 1
              /\ backoffs[p] = [k \in 1..(per_post_retries + 1) |-> k]
              /\ p < i => paced[p] = 1
              /\ (p = i /\ pc = "dl_pacing") => paced[p] = 0
        /\ (p <= nposts /\ tries[p] > 0) =>
              \A q \in 1..(p - 1) : q \in loopEnded /\ paced[q] = 1

\* The first post failed all three attempts allowed, slept three times and
\* once more for pacing, and the second post is being attempted.
C19_Witness ==
    /\ per_post_retries = 2
    /\ 1 \notin succeeded
    /\ tries[1] = 3
    /\ backoffs[1] = <<1, 2, 3>>
    /\ paced[1] = 1
    /\ i = 2
    /\ tries[2] = 1

RECURSIVE CallsUpTo(_)
\* download_post calls made for the posts 1..n.
CallsUpTo(n) == IF n = 0 THEN 0 ELSE tries[n] + CallsUpTo(n - 1)

\* C20: for a finite collection of N posts and per_post_retries = R >= 0,
\* download_posts_with_delays terminates under every pattern of download
\* successes, failures and interrupts, and makes at most N*(R+1)
\* download_post calls.
C20_TerminatesWithinCallBudget ==
    /\ <>(pc = "dl_done" /\ dlStatus \in {"returned", "raised"})
    /\ [](CallsUpTo(MaxPosts) <= nposts * (per_post_retries + 1))

\* Every post used every attempt and the pass ended.
C20_Witness ==
    /\ pc = "dl_done"
    /\ dlStatus = "returned"
    /\ nposts = MaxPosts
    /\ per_post_retries = 2
    /\ CallsUpTo(MaxPosts) = nposts * (per_post_retries + 1)

====
